---- MODULE Spec2Model ----
(***************************************************************************)
(* Model of src/main.cpp: the OrderBook class (limitOrder, updateLevel,    *)
(* clear, setSeqId, displayDepth and the private match, updateMap and      *)
(* checkAndMatchLocalOrders) and the message callback of startOkxSync.     *)
(*                                                                         *)
(* Prices and quantities are doubles in the source.  The model draws them  *)
(* from small integer ranges (ticks and lots), so the source's epsilon     *)
(* tests read: q < 1e-10 is q <= 0 and q > 1e-10 is q > 0.                 *)
(***************************************************************************)
EXTENDS Integers, Sequences, FiniteSets, TLC

\* ---------------------------------------------------------------- bounds
MaxPrice == 2
MaxQty   == 2
MaxId    == 2
MaxSeq   == 1

Prices   == 1..MaxPrice
Qtys     == 0..(MaxQty + 1)    \* an order's quantity; 0: a no-op submit; one lot
                               \* above a feed level: a taker can sweep two
                               \* levels and still rest a remainder
FeedQtys == {0, MaxQty}        \* a level the feed reports: empty, or MaxQty lots
                               \* (smaller resting quantities come from fills)
LocalIds == 1..MaxId           \* id 0 is reserved for the feed's synthetic order
SeqIds   == 0..MaxSeq
PrevSeqIds == -1..MaxSeq       \* the first record of a stream names no predecessor
Sides    == {"BUY", "SELL"}
Actions  == {"snapshot", "update"}

\* ---------------------------------------------------------------- state
VARIABLES
  bids,          \* std::map<double, std::list<Order>, greater>: price -> queue
  asks,          \* std::map<double, std::list<Order>>: price -> queue
  order_lookup,  \* std::unordered_map<uint64_t, OrderEntry>: id -> [price, side]
  lastSeqId,     \* int64_t lastSeqId
  feed,          \* the message callback: its position and the record in hand
  gapReported,   \* whether the callback has surfaced a sequence gap to its caller
  out,           \* what the last operation printed (trades, or a depth rendering)
  lastOp,        \* the last operation and its arguments
  mtx,           \* mutable std::mutex mtx: the thread that holds it, or "free"
  thr            \* each thread's position inside the operation it is running

vars == <<bids, asks, order_lookup, lastSeqId, feed, gapReported, out, lastOp,
          mtx, thr>>

\* ---------------------------------------------------------------- helpers
Min(a, b) == IF a < b THEN a ELSE b

\* q < 1e-10 on lot-sized quantities
Dust(q) == q <= 0

\* q > 1e-10 on lot-sized quantities
Live(q) == q > 0

\* std::list::erase(it) at position i
RemoveAt(s, i) == SubSeq(s, 1, i - 1) \o SubSeq(s, i + 1, Len(s))

\* std::map::end()
MapEnd == 0

\* std::map::erase(key)
MapErase(m, k) == [p \in DOMAIN m \ {k} |-> m[p]]

\* map[key] = v
MapPut(m, k, v) == [p \in DOMAIN m \cup {k} |-> IF p = k THEN v ELSE m[p]]

\* key order of a side's map: asks std::less, bids std::greater
Before(side, p, q) == IF side = "SELL" THEN p < q ELSE p > q

\* std::map::begin() of the map of the given side
Begin(m, side) ==
  IF DOMAIN m = {} THEN MapEnd
  ELSE CHOOSE p \in DOMAIN m : \A q \in DOMAIN m : p = q \/ Before(side, p, q)

\* ++it on the map of the given side
SuccNone(m, side, it) == MapEnd

Succ(m, side, it) ==
  LET later == {q \in DOMAIN m : Before(side, it, q)}
  IN  IF later = {} THEN MapEnd
      ELSE CHOOSE p \in later : \A q \in later : p = q \/ Before(side, p, q)

\* Order::Order
Order(id, price, qty, side) ==
  [id |-> id, price |-> price, quantity |-> qty, originalQuantity |-> qty,
   filledQuantity |-> 0, side |-> side]

\* order_lookup.erase(id), guarded by id != 0 as at every call site
LookupErase(lk, id) == IF id # 0 THEN MapErase(lk, id) ELSE lk

EmptyMap == [p \in {} |-> <<>>]

\* ---------------------------------------------------------------- match
\* queue.begin()
QBeginBack(queue) == IF queue = <<>> THEN 1 ELSE Len(queue)

QBegin(queue) == 1

\* the price printed for a fill of match: it->first, the resting level's price
TradePriceTaker(incoming, it) == incoming.price

TradePrice(incoming, it) == it

\* the line match prints per fill: the taker's id, the price and the quantity.
\* side, limit and rem are not printed: they keep the taker's side, its own
\* price and what it still wanted when the fill was made; mprice and mrem
\* keep the maker's own price and what it still had.
MatchTrade(incoming, maker, it, fill) ==
  [kind |-> "match", taker |-> incoming.id, side |-> incoming.side,
   limit |-> incoming.price, rem |-> incoming.quantity,
   mprice |-> maker.price, mrem |-> maker.quantity,
   price |-> TradePrice(incoming, it), quantity |-> fill]

\* the inner while of match: walk one level's queue from q_it = i
RECURSIVE MatchQueue(_, _, _)
MatchQueue(st, it, i) ==
  LET queue == st.map[it] IN
  IF i > Len(queue) \/ ~Live(st.inc.quantity) THEN st
  ELSE
    LET maker == queue[i]
        fill  == Min(st.inc.quantity, maker.quantity)
        inc2  == [st.inc EXCEPT !.quantity = @ - fill]
        mk2   == [maker EXCEPT !.quantity = @ - fill]
        tr2   == Append(st.tr, MatchTrade(st.inc, maker, it, fill))
    IN  IF Dust(mk2.quantity)
        THEN MatchQueue([inc |-> inc2,
                         map |-> MapPut(st.map, it, RemoveAt(queue, i)),
                         lk  |-> LookupErase(st.lk, maker.id),
                         tr  |-> tr2], it, i)
        ELSE MatchQueue([inc |-> inc2,
                         map |-> MapPut(st.map, it, [queue EXCEPT ![i] = mk2]),
                         lk  |-> st.lk,
                         tr  |-> tr2], it, i + 1)

\* the break test of match: the level at it is beyond the taker's limit
BeyondLimitNever(incoming, it) == FALSE

BeyondLimitOrEqual(incoming, it) ==
  \/ incoming.side = "BUY" /\ incoming.price <= it
  \/ incoming.side = "SELL" /\ incoming.price >= it

BeyondLimit(incoming, it) ==
  \/ incoming.side = "BUY" /\ incoming.price < it
  \/ incoming.side = "SELL" /\ incoming.price > it

\* the outer while of match: walk the counter side's levels from it
RECURSIVE MatchLevels(_, _, _)
MatchLevels(st, cside, it) ==
  IF it = MapEnd \/ ~Live(st.inc.quantity) THEN st
  ELSE IF BeyondLimit(st.inc, it) THEN st
  ELSE
    LET st2 == MatchQueue(st, it, QBegin(st.map[it]))
        nxt == Succ(st.map, cside, it)
    IN  IF st2.map[it] = <<>>
        THEN MatchLevels([st2 EXCEPT !.map = MapErase(st2.map, it)], cside, nxt)
        ELSE MatchLevels(st2, cside, nxt)

\* OrderBook::match(incoming, counter_side_map)
match(incoming, counter_side_map, cside, lk) ==
  MatchLevels([inc |-> incoming, map |-> counter_side_map, lk |-> lk, tr |-> <<>>],
              cside, Begin(counter_side_map, cside))

\* if (order_lookup.count(id)) return;
IsDuplicateNever(id, lk) == FALSE

IsDuplicate(id, lk) == id \in DOMAIN lk

\* queue.push_back(new_order) on side_map[price]
PushBack(m, price, o) ==
  MapPut(m, price, (IF price \in DOMAIN m THEN m[price] ELSE <<>>) \o <<o>>)

\* OrderBook::limitOrder: the book, the index and the printed trades it leaves
limitOrder(b, a, lk, id, price, quantity, side) ==
  IF IsDuplicate(id, lk) THEN [bids |-> b, asks |-> a, lk |-> lk, tr |-> <<>>]
  ELSE
    LET new_order == Order(id, price, quantity, side)
        m   == IF side = "BUY" THEN match(new_order, a, "SELL", lk)
                               ELSE match(new_order, b, "BUY", lk)
        b1  == IF side = "BUY" THEN b ELSE m.map
        a1  == IF side = "BUY" THEN m.map ELSE a
        entry == [price |-> price, side |-> side]
    IN  IF Live(m.inc.quantity)
        THEN IF side = "BUY"
             THEN [bids |-> PushBack(b1, price, m.inc), asks |-> a1,
                   lk |-> MapPut(m.lk, id, entry), tr |-> m.tr]
             ELSE [bids |-> b1, asks |-> PushBack(a1, price, m.inc),
                   lk |-> MapPut(m.lk, id, entry), tr |-> m.tr]
        ELSE [bids |-> b1, asks |-> a1, lk |-> m.lk, tr |-> m.tr]

\* ---------------------------------------------------------------- feed merge
\* OrderBook::updateMap(side_map, price, totalQuantity, side)
updateMapAppend(side_map, price, totalQuantity, side) ==
  IF Dust(totalQuantity) THEN MapErase(side_map, price)
  ELSE
    LET queue == IF price \in DOMAIN side_map THEN side_map[price] ELSE <<>> IN
    IF queue = <<>> \/ queue[1].id # 0
    THEN MapPut(side_map, price, Append(queue, Order(0, price, totalQuantity, side)))
    ELSE MapPut(side_map, price, [queue EXCEPT ![1].quantity = totalQuantity])

updateMap(side_map, price, totalQuantity, side) ==
  IF Dust(totalQuantity) THEN MapErase(side_map, price)
  ELSE
    LET queue == IF price \in DOMAIN side_map THEN side_map[price] ELSE <<>> IN
    IF queue = <<>>
    THEN MapPut(side_map, price, <<Order(0, price, totalQuantity, side)>>)
    ELSE MapPut(side_map, price, [queue EXCEPT ![1].quantity = totalQuantity])

\* ---------------------------------------------------------------- reconcile
\* the lines checkAndMatchLocalOrders prints per fill: the two ids (0 prints as
\* "OKX"), the price a_it->first and the quantity.  bid, ask, brem and arem are
\* not printed: they keep the two orders' own prices and what each still had.
ReconcileTrade(bo, ao, a_it, fill) ==
  [kind |-> "reconcile", buy |-> bo.id, sell |-> ao.id,
   bid |-> bo.price, ask |-> ao.price, brem |-> bo.quantity, arem |-> ao.quantity,
   price |-> a_it, quantity |-> fill]

\* innermost while of checkAndMatchLocalOrders: bid order i against the ask
\* queue from a_q_it = j
RECURSIVE RecAskLoop(_, _, _, _, _)
RecAskLoop(st, b_it, a_it, i, j) ==
  LET b_queue == st.bids[b_it]
      a_queue == st.asks[a_it]
  IN
  IF j > Len(a_queue) \/ ~Live(b_queue[i].quantity) THEN st
  ELSE
    LET bo == b_queue[i]
        ao == a_queue[j]
    IN
    IF bo.id # 0 \/ ao.id # 0
    THEN
      LET fill == Min(bo.quantity, ao.quantity)
          bo2  == [bo EXCEPT !.quantity = @ - fill]
          ao2  == [ao EXCEPT !.quantity = @ - fill]
          bids2 == MapPut(st.bids, b_it, [b_queue EXCEPT ![i] = bo2])
          tr2  == Append(st.tr, ReconcileTrade(bo, ao, a_it, fill))
      IN  IF Dust(ao2.quantity)
          THEN RecAskLoop([bids |-> bids2,
                           asks |-> MapPut(st.asks, a_it, RemoveAt(a_queue, j)),
                           lk   |-> LookupErase(st.lk, ao.id),
                           tr   |-> tr2], b_it, a_it, i, j)
          ELSE RecAskLoop([bids |-> bids2,
                           asks |-> MapPut(st.asks, a_it, [a_queue EXCEPT ![j] = ao2]),
                           lk   |-> st.lk,
                           tr   |-> tr2], b_it, a_it, i, j + 1)
    ELSE st   \* both are the feed's: break

\* middle while of checkAndMatchLocalOrders: the bid queue from b_q_it = i
RecBidHeadOnly(st, b_it, a_it, i) ==
  IF i > Len(st.bids[b_it]) \/ st.asks[a_it] = <<>> THEN st
  ELSE
    LET st2 == RecAskLoop(st, b_it, a_it, i, 1)
        bo  == st2.bids[b_it][i]
    IN  IF Dust(bo.quantity)
        THEN [st2 EXCEPT
                !.bids = MapPut(st2.bids, b_it, RemoveAt(st2.bids[b_it], i)),
                !.lk   = LookupErase(st2.lk, bo.id)]
        ELSE st2

RECURSIVE RecBidLoop(_, _, _, _)
RecBidLoop(st, b_it, a_it, i) ==
  IF i > Len(st.bids[b_it]) \/ st.asks[a_it] = <<>> THEN st
  ELSE
    LET st2 == RecAskLoop(st, b_it, a_it, i, 1)
        bo  == st2.bids[b_it][i]
    IN  IF Dust(bo.quantity)
        THEN RecBidLoop([st2 EXCEPT
                           !.bids = MapPut(st2.bids, b_it, RemoveAt(st2.bids[b_it], i)),
                           !.lk   = LookupErase(st2.lk, bo.id)],
                        b_it, a_it, i)
        ELSE RecBidLoop(st2, b_it, a_it, i + 1)

\* outer while of checkAndMatchLocalOrders: the two best levels b_it, a_it
RECURSIVE RecLevels(_, _, _)
RecLevels(st, b_it, a_it) ==
  IF b_it = MapEnd \/ a_it = MapEnd \/ ~(b_it >= a_it) THEN st
  ELSE
    LET st2 == RecBidLoop(st, b_it, a_it, 1) IN
    IF st2.bids[b_it] = <<>>
    THEN RecLevels([st2 EXCEPT !.bids = MapErase(st2.bids, b_it)],
                   Succ(st2.bids, "BUY", b_it), a_it)
    ELSE IF st2.asks[a_it] = <<>>
    THEN RecLevels([st2 EXCEPT !.asks = MapErase(st2.asks, a_it)],
                   b_it, Succ(st2.asks, "SELL", a_it))
    ELSE st2

\* OrderBook::checkAndMatchLocalOrders
reconcileSkipped(b, a, lk) == [bids |-> b, asks |-> a, lk |-> lk, tr |-> <<>>]

checkAndMatchLocalOrders(b, a, lk) ==
  IF DOMAIN b = {} \/ DOMAIN a = {} THEN [bids |-> b, asks |-> a, lk |-> lk, tr |-> <<>>]
  ELSE RecLevels([bids |-> b, asks |-> a, lk |-> lk, tr |-> <<>>],
                 Begin(b, "BUY"), Begin(a, "SELL"))

\* the merge step of updateLevel: updateMap on the map of the given side
mergeStep(b, a, side, price, totalQuantity) ==
  IF side = "BUY"
  THEN [bids |-> updateMap(b, price, totalQuantity, "BUY"), asks |-> a]
  ELSE [bids |-> b, asks |-> updateMap(a, price, totalQuantity, "SELL")]

\* OrderBook::updateLevel(side, price, totalQuantity)
updateLevel(b, a, lk, side, price, totalQuantity) ==
  IF side = "BUY"
  THEN checkAndMatchLocalOrders(updateMap(b, price, totalQuantity, "BUY"), a, lk)
  ELSE checkAndMatchLocalOrders(b, updateMap(a, price, totalQuantity, "SELL"), lk)

\* OrderBook::displayDepth(levels): the header's seqId and the two columns of
\* (price, level quantity); nothing when both sides are empty
RECURSIVE SumQty(_)
SumQty(queue) ==
  IF queue = <<>> THEN 0 ELSE queue[1].quantity + SumQty(Tail(queue))

RECURSIVE TopLevels(_, _, _, _)
TopLevels(m, side, it, count) ==
  IF it = MapEnd \/ count = 0 THEN <<>>
  ELSE << [price |-> it, qty |-> SumQty(m[it])] >>
       \o TopLevels(m, side, Succ(m, side, it), count - 1)

RECURSIVE Reverse(_)
Reverse(s) == IF s = <<>> THEN <<>> ELSE Append(Reverse(Tail(s)), s[1])

\* int levels = 5
DepthLevels == 5

displayDepth(b, a, seq) ==
  IF DOMAIN a = {} /\ DOMAIN b = {} THEN <<>>
  ELSE <<[kind |-> "depth", seqId |-> seq,
          asks |-> Reverse(TopLevels(a, "SELL", Begin(a, "SELL"), DepthLevels)),
          bids |-> TopLevels(b, "BUY", Begin(b, "BUY"), DepthLevels)]>>

\* ---------------------------------------------------------------- sequence id
\* int64_t lastSeqId = -1, and the value clear() puts back
NoSeqId == -1

\* OrderBook::setSeqId: lastSeqId = seqId
setSeqIdIfNewer(cur, seqId) == IF seqId > cur THEN seqId ELSE cur

setSeqId(cur, seqId) == seqId

\* ---------------------------------------------------------------- threads
\* the websocket thread runs the callback, the main thread the display loop,
\* and a strategy thread submits orders
Threads == {"ws", "main", "strat"}

\* a thread that is in no operation of the book
Idle == [pc |-> "idle"]

\* ---------------------------------------------------------------- actions
Init ==
  /\ bids = EmptyMap
  /\ asks = EmptyMap
  /\ order_lookup = EmptyMap
  /\ lastSeqId = NoSeqId
  /\ feed = [pc |-> "idle", seqId |-> NoSeqId, link |-> "none"]
  /\ gapReported = FALSE
  /\ out = <<>>
  /\ lastOp = [op |-> "init"]
  /\ mtx = "free"
  /\ thr = [t \in Threads |-> Idle]

\* ob.limitOrder(id, price, quantity, side, symbol): one critical section on mtx
LimitOrder(id, price, quantity, side) ==
  LET r == limitOrder(bids, asks, order_lookup, id, price, quantity, side) IN
  /\ bids' = r.bids
  /\ asks' = r.asks
  /\ order_lookup' = r.lk
  /\ out' = r.tr
  /\ lastOp' = [op |-> "limitOrder", dup |-> id \in DOMAIN order_lookup]
  /\ UNCHANGED <<lastSeqId, feed, gapReported, mtx, thr>>

\* ob.updateLevel(side, price, totalQuantity): merge and reconcile are one
\* critical section on mtx
UpdateLevel(side, price, totalQuantity) ==
  LET r == updateLevel(bids, asks, order_lookup, side, price, totalQuantity) IN
  /\ bids' = r.bids
  /\ asks' = r.asks
  /\ order_lookup' = r.lk
  /\ out' = r.tr
  /\ lastOp' = [op |-> "updateLevel"]
  /\ UNCHANGED <<lastSeqId, gapReported, mtx, thr>>

\* ob.clear(): one critical section on mtx
Clear ==
  /\ bids' = EmptyMap
  /\ asks' = EmptyMap
  /\ order_lookup' = EmptyMap
  /\ lastSeqId' = NoSeqId
  /\ out' = <<>>
  /\ lastOp' = [op |-> "clear"]
  /\ UNCHANGED <<gapReported, mtx, thr>>

\* ob.displayDepth(5): one critical section on mtx
DisplayDepth ==
  /\ out' = displayDepth(bids, asks, lastSeqId)
  /\ lastOp' = [op |-> "displayDepth"]
  /\ UNCHANGED <<bids, asks, order_lookup, lastSeqId, feed, gapReported, mtx, thr>>

\* The book under any sequence of calls of its public operations.
Next ==
  \/ \E id \in LocalIds, price \in Prices, quantity \in Qtys, side \in Sides :
       LimitOrder(id, price, quantity, side)
  \/ \E side \in Sides, price \in Prices, totalQuantity \in FeedQtys :
       UpdateLevel(side, price, totalQuantity) /\ UNCHANGED feed
  \/ Clear /\ UNCHANGED feed

Spec == Init /\ [][Next]_vars

\* ---------------------------------------------------------------- the callback
\* how a message's (seqId, prevSeqId) stand to the book's lastSeqId on arrival.
\* The callback reads neither prevSeqId nor lastSeqId: this is kept beside
\* the record only so that properties can speak of it.
Link(action, seqId, prevSeqId, last) ==
  IF action = "snapshot" THEN "snapshot"
  ELSE IF last = NoSeqId THEN "baseline"
  ELSE IF prevSeqId = last THEN "contiguous"
  ELSE IF seqId >= prevSeqId THEN "gap"
  ELSE "reset"

\* the callback takes a "books" message: if action is "snapshot", ob.clear().
\* A message is taken with one record in data; a further record of the same
\* message makes the calls of a following "update" message (setSeqId, then
\* its levels, no clear).
FeedMessage(action, seqId, prevSeqId) ==
  /\ feed.pc = "idle"
  /\ feed' = [pc |-> "seq", seqId |-> seqId,
              link |-> Link(action, seqId, prevSeqId, lastSeqId)]
  /\ IF action = "snapshot"
     THEN Clear
     ELSE /\ out' = <<>>
          /\ lastOp' = [op |-> "message"]
          /\ UNCHANGED <<bids, asks, order_lookup, lastSeqId, gapReported, mtx, thr>>

\* ob.setSeqId(item.value("seqId", -1)): a plain store, outside mtx
FeedSetSeqId ==
  /\ feed.pc = "seq"
  /\ lastSeqId' = setSeqId(lastSeqId, feed.seqId)
  /\ feed' = [feed EXCEPT !.pc = "bids"]
  /\ out' = <<>>
  /\ lastOp' = [op |-> "setSeqId"]
  /\ UNCHANGED <<bids, asks, order_lookup, gapReported, mtx, thr>>

\* one ob.updateLevel of the record: its bids first, then its asks
FeedUpdateLevel(side, price, totalQuantity) ==
  /\ \/ feed.pc = "bids"
     \/ feed.pc = "asks" /\ side = "SELL"
  /\ feed' = [feed EXCEPT !.pc = IF side = "BUY" THEN "bids" ELSE "asks"]
  /\ UpdateLevel(side, price, totalQuantity)

\* the callback returns: the record's levels are exhausted (or a level failed
\* to parse and catch (...) dropped the rest).  It returns nothing and reports
\* nothing.
FeedEnd ==
  /\ feed.pc \in {"bids", "asks"}
  /\ feed' = [feed EXCEPT !.pc = "idle"]
  /\ out' = <<>>
  /\ lastOp' = [op |-> "feedEnd"]
  /\ UNCHANGED <<bids, asks, order_lookup, lastSeqId, gapReported, mtx, thr>>

\* bounds of the book under the feed program
FeedMaxPrice == 1
FeedMaxQty   == 1
FeedMaxId    == 1

\* The program: the websocket thread runs the callback record by record while
\* the main thread displays the depth and a strategy submits orders.
NextFeed ==
  \/ \E action \in Actions, seqId \in SeqIds, prevSeqId \in PrevSeqIds :
       FeedMessage(action, seqId, prevSeqId)
  \/ FeedSetSeqId
  \/ \E side \in Sides, price \in 1..FeedMaxPrice, totalQuantity \in 0..FeedMaxQty :
       FeedUpdateLevel(side, price, totalQuantity)
  \/ FeedEnd
  \/ DisplayDepth
  \/ \E id \in 1..FeedMaxId, price \in 1..FeedMaxPrice, quantity \in 0..FeedMaxQty,
        side \in Sides :
       LimitOrder(id, price, quantity, side)

SpecFeed == Init /\ [][NextFeed]_vars

\* ---------------------------------------------------------------- the mutex
\* std::lock_guard<std::mutex> lock(mtx): the constructor returns once no
\* thread holds mtx
AcquireUnguarded(t) == TRUE

Acquire(t) == mtx = "free"

\* an idle thread t enters an operation of the book: it takes mtx and stands
\* at the operation's first statement
Enter(t, call) ==
  /\ thr[t] = Idle
  /\ Acquire(t)
  /\ mtx' = t
  /\ thr' = [thr EXCEPT ![t] = call]
  /\ out' = <<>>
  /\ lastOp' = [op |-> "lock"]
  /\ UNCHANGED <<bids, asks, order_lookup, lastSeqId, feed, gapReported>>

\* thread t returns from its operation: ~lock_guard releases mtx
Leave(t) ==
  /\ mtx' = "free"
  /\ thr' = [thr EXCEPT ![t] = Idle]

\* updateLevel, statement by statement: lock (57), merge (58-62), reconcile (64)
UpdateLevelEnter(side, price, totalQuantity) ==
  Enter("ws", [pc |-> "merge", side |-> side, price |-> price,
               totalQuantity |-> totalQuantity])

UpdateLevelMerge ==
  /\ thr["ws"].pc = "merge"
  /\ LET m == mergeStep(bids, asks, thr["ws"].side, thr["ws"].price,
                        thr["ws"].totalQuantity)
     IN  bids' = m.bids /\ asks' = m.asks
  /\ thr' = [thr EXCEPT !["ws"] = [pc |-> "reconcile"]]
  /\ out' = <<>>
  /\ lastOp' = [op |-> "merge"]
  /\ UNCHANGED <<order_lookup, lastSeqId, feed, gapReported, mtx>>

UpdateLevelReconcile ==
  /\ thr["ws"].pc = "reconcile"
  /\ LET r == checkAndMatchLocalOrders(bids, asks, order_lookup)
     IN  /\ bids' = r.bids
         /\ asks' = r.asks
         /\ order_lookup' = r.lk
         /\ out' = r.tr
  /\ Leave("ws")
  /\ lastOp' = [op |-> "updateLevel"]
  /\ UNCHANGED <<lastSeqId, feed, gapReported>>

\* clear: lock (93), the four resets (94)
ClearEnter == Enter("ws", [pc |-> "clear"])

ClearBody ==
  /\ thr["ws"].pc = "clear"
  /\ bids' = EmptyMap
  /\ asks' = EmptyMap
  /\ order_lookup' = EmptyMap
  /\ lastSeqId' = NoSeqId
  /\ Leave("ws")
  /\ out' = <<>>
  /\ lastOp' = [op |-> "clear"]
  /\ UNCHANGED <<feed, gapReported>>

\* setSeqId (97): the websocket thread stores lastSeqId without taking mtx
SetSeqIdUnlocked(seqId) ==
  /\ thr["ws"] = Idle
  /\ lastSeqId' = setSeqId(lastSeqId, seqId)
  /\ out' = <<>>
  /\ lastOp' = [op |-> "setSeqId"]
  /\ UNCHANGED <<bids, asks, order_lookup, feed, gapReported, mtx, thr>>

\* displayDepth: lock (101), the empty test, header and ask rows (102-115),
\* the bid rows (117-122)
DisplayEnter == Enter("main", [pc |-> "asks"])

DisplayAsks ==
  /\ thr["main"].pc = "asks"
  /\ IF DOMAIN asks = {} /\ DOMAIN bids = {}
     THEN /\ Leave("main")
          /\ lastOp' = [op |-> "displayDepth"]
     ELSE /\ thr' = [thr EXCEPT !["main"] =
                       [pc |-> "bids", seqId |-> lastSeqId,
                        asks |-> Reverse(TopLevels(asks, "SELL", Begin(asks, "SELL"),
                                                   DepthLevels))]]
          /\ lastOp' = [op |-> "displayAsks"]
          /\ UNCHANGED mtx
  /\ out' = <<>>
  /\ UNCHANGED <<bids, asks, order_lookup, lastSeqId, feed, gapReported>>

DisplayBids ==
  /\ thr["main"].pc = "bids"
  /\ out' = <<[kind |-> "depth", seqId |-> thr["main"].seqId,
               asks |-> thr["main"].asks,
               bids |-> TopLevels(bids, "BUY", Begin(bids, "BUY"), DepthLevels)]>>
  /\ Leave("main")
  /\ lastOp' = [op |-> "displayDepth"]
  /\ UNCHANGED <<bids, asks, order_lookup, lastSeqId, feed, gapReported>>

\* limitOrder: lock (68), duplicate test and match (69-75), rest (78-89)
LimitOrderEnter(id, price, quantity, side) ==
  Enter("strat", [pc |-> "match", order |-> Order(id, price, quantity, side)])

LimitOrderMatch ==
  /\ thr["strat"].pc = "match"
  /\ LET new_order == thr["strat"].order IN
     IF IsDuplicate(new_order.id, order_lookup)
     THEN /\ Leave("strat")
          /\ out' = <<>>
          /\ lastOp' = [op |-> "limitOrder", dup |-> TRUE]
          /\ UNCHANGED <<bids, asks, order_lookup>>
     ELSE LET m == IF new_order.side = "BUY"
                   THEN match(new_order, asks, "SELL", order_lookup)
                   ELSE match(new_order, bids, "BUY", order_lookup)
          IN  /\ IF new_order.side = "BUY"
                 THEN asks' = m.map /\ bids' = bids
                 ELSE bids' = m.map /\ asks' = asks
              /\ order_lookup' = m.lk
              /\ thr' = [thr EXCEPT !["strat"] = [pc |-> "rest", order |-> m.inc]]
              /\ out' = m.tr
              /\ lastOp' = [op |-> "match"]
              /\ UNCHANGED mtx
  /\ UNCHANGED <<lastSeqId, feed, gapReported>>

LimitOrderRest ==
  /\ thr["strat"].pc = "rest"
  /\ LET new_order == thr["strat"].order IN
     IF Live(new_order.quantity)
     THEN /\ IF new_order.side = "BUY"
             THEN bids' = PushBack(bids, new_order.price, new_order) /\ asks' = asks
             ELSE asks' = PushBack(asks, new_order.price, new_order) /\ bids' = bids
          /\ order_lookup' = MapPut(order_lookup, new_order.id,
                                    [price |-> new_order.price, side |-> new_order.side])
     ELSE UNCHANGED <<bids, asks, order_lookup>>
  /\ Leave("strat")
  /\ lastOp' = [op |-> "limitOrder", dup |-> FALSE]
  /\ UNCHANGED <<out, lastSeqId, feed, gapReported>>

\* The three threads, statement by statement, on the book of the feed bounds.
NextLock ==
  \/ \E side \in Sides, price \in 1..FeedMaxPrice, totalQuantity \in 0..FeedMaxQty :
       UpdateLevelEnter(side, price, totalQuantity)
  \/ UpdateLevelMerge
  \/ UpdateLevelReconcile
  \/ ClearEnter
  \/ ClearBody
  \/ \E seqId \in SeqIds : SetSeqIdUnlocked(seqId)
  \/ DisplayEnter
  \/ DisplayAsks
  \/ DisplayBids
  \/ \E id \in 1..FeedMaxId, price \in 1..FeedMaxPrice, quantity \in 0..FeedMaxQty,
        side \in Sides :
       LimitOrderEnter(id, price, quantity, side)
  \/ LimitOrderMatch
  \/ LimitOrderRest

SpecLock == Init /\ [][NextLock]_vars

\* ================================================================ properties
\* the orders resting in a side's map
OrdersOf(m) == UNION {{m[p][i] : i \in 1..Len(m[p])} : p \in DOMAIN m}

RestingOrders == OrdersOf(bids) \cup OrdersOf(asks)

\* C1: no empty levels -- neither the bid map nor the ask map holds a price
\* level whose order queue is empty.
C1_NoEmptyLevels ==
  /\ \A p \in DOMAIN bids : bids[p] # <<>>
  /\ \A p \in DOMAIN asks : asks[p] # <<>>

\* C2: index consistency -- the ids in order_lookup are exactly the non-zero
\* ids of the orders resting in the bid and ask levels.
C2_IndexConsistent ==
  DOMAIN order_lookup = {o.id : o \in {r \in RestingOrders : r.id # 0}}

\* C5: fill conservation -- every resting order has
\* filledQuantity + quantity = originalQuantity.
C5_FillConservation ==
  \A o \in RestingOrders : o.filledQuantity + o.quantity = o.originalQuantity

\* ---------------------------------------------------------------- C3
\* position of the order with the given id in a queue, 0 when it is not there
Pos(queue, id) ==
  IF \E i \in 1..Len(queue) : queue[i].id = id
  THEN CHOOSE i \in 1..Len(queue) : queue[i].id = id
  ELSE 0

QueueAt(m, p) == IF p \in DOMAIN m THEN m[p] ELSE <<>>

\* between a side before (m) and after (m2) a submit: an order is touched only
\* once every order ahead of it at its price is gone, the survivors keep their
\* order, and a partially filled order is the head of its level
PriorityKept(m, m2) ==
  \A p \in DOMAIN m : \A i, j \in 1..Len(m[p]) :
    LET A  == m[p][i]
        B  == m[p][j]
        q2 == QueueAt(m2, p)
        ia == Pos(q2, A.id)
        ib == Pos(q2, B.id)
    IN  /\ (i < j /\ (ib = 0 \/ q2[ib].quantity # B.quantity)) => ia = 0
        /\ (i < j /\ ia # 0 /\ ib # 0) => ia < ib
        /\ (ia # 0 /\ q2[ia].quantity # A.quantity) => ia = 1

\* C3: price-time priority on submit -- for two orders A ahead of B at one
\* price, a submit reduces or removes B only if it has filled and removed A;
\* a partially filled maker keeps its queue position.
C3_PriceTimePriority ==
  [][lastOp'.op = "limitOrder" =>
       PriorityKept(bids, bids') /\ PriorityKept(asks, asks')]_vars

\* a submit has consumed the head of a level whole and the order behind it in
\* part: two fills at one price, and that level is still on the counter side
C3_Witness ==
  /\ lastOp.op = "limitOrder"
  /\ Len(out) = 2
  /\ out[1].price = out[2].price
  /\ out[1].price \in DOMAIN (IF out[1].side = "BUY" THEN asks ELSE bids)

\* ---------------------------------------------------------------- C4
BothSidesNonEmpty == DOMAIN bids # {} /\ DOMAIN asks # {}

BestBid == Begin(bids, "BUY")

BestAsk == Begin(asks, "SELL")

Crossed == BothSidesNonEmpty /\ BestBid >= BestAsk

\* C4 as stated: after submit returns, in any reachable state, whenever both
\* sides are non-empty the best bid is strictly below the best ask.
C4_NeverCrossedAfterSubmit ==
  lastOp.op = "limitOrder" => (BothSidesNonEmpty => BestBid < BestAsk)

\* the order a submit has just rested does not cross the opposite side
RemainderClear ==
  \A id \in DOMAIN order_lookup' \ DOMAIN order_lookup :
    LET e == order_lookup'[id] IN
    IF e.side = "BUY" THEN \A p \in DOMAIN asks' : e.price < p
                      ELSE \A p \in DOMAIN bids' : p < e.price

\* C4 amended: after submit returns, whenever both sides are non-empty the best
\* bid is strictly below the best ask provided the book was not crossed when
\* submit was called; and on any book, the remainder that submit rests never
\* crosses the opposite side.
C4_SubmitKeepsUncrossed ==
  [][lastOp'.op = "limitOrder" =>
       /\ (~Crossed => ~Crossed')
       /\ RemainderClear]_vars

\* a submit has traded, rested its remainder, and both sides are non-empty
C4_Witness ==
  /\ lastOp.op = "limitOrder"
  /\ out # <<>>
  /\ out[1].taker \in DOMAIN order_lookup
  /\ BothSidesNonEmpty
  /\ BestBid < BestAsk

\* ---------------------------------------------------------------- C8
\* C8: duplicate id rejection -- a submit whose id is in the order index
\* changes neither side of the book nor the index and prints no trade.
C8_DuplicateRejected ==
  [][(lastOp'.op = "limitOrder" /\ lastOp'.dup) =>
       (UNCHANGED <<bids, asks, order_lookup>> /\ out' = <<>>)]_vars

\* a duplicate submit has returned on a book that holds orders on both sides
C8_Witness ==
  /\ lastOp.op = "limitOrder"
  /\ lastOp.dup
  /\ BothSidesNonEmpty

\* ---------------------------------------------------------------- C10
\* the resting orders of a side in the order a taker meets them
RECURSIVE Makers(_, _, _)
Makers(m, side, it) ==
  IF it = MapEnd THEN <<>> ELSE m[it] \o Makers(m, side, Succ(m, side, it))

\* the k-th printed fill is made with the k-th maker, at that maker's price,
\* for the smaller of what the taker wanted and what the maker had
FillsAtMakerPrice(tr, makers) ==
  /\ Len(tr) <= Len(makers)
  /\ \A k \in 1..Len(tr) :
       /\ tr[k].price = makers[k].price
       /\ tr[k].quantity = Min(tr[k].rem, makers[k].quantity)

\* the spec's example: one local BUY q @ p rests alone, a SELL q at a lower
\* limit is submitted: one trade of q at p, both orders gone from the book and
\* the index, the book empty
FullMatchExample ==
  \A p \in DOMAIN bids :
    (/\ DOMAIN bids = {p} /\ DOMAIN asks = {}
     /\ Len(bids[p]) = 1 /\ bids[p][1].id # 0
     /\ out' # <<>>
     /\ out'[1].side = "SELL" /\ out'[1].limit < p
     /\ out'[1].rem = bids[p][1].quantity)
    => /\ Len(out') = 1
       /\ out'[1].price = p /\ out'[1].quantity = bids[p][1].quantity
       /\ DOMAIN bids' = {} /\ DOMAIN asks' = {}
       /\ bids[p][1].id \notin DOMAIN order_lookup'
       /\ out'[1].taker \notin DOMAIN order_lookup'

\* C10: maker's price prevails on submit -- every trade of a submit is printed
\* at the price of the resting level consumed, never the taker's limit, one
\* trade per fill of quantity min(taker remaining, maker remaining).
C10_MakerPricePrevails ==
  [][(lastOp'.op = "limitOrder" /\ out' # <<>>) =>
       /\ IF out'[1].side = "BUY"
          THEN FillsAtMakerPrice(out', Makers(asks, "SELL", Begin(asks, "SELL")))
          ELSE FillsAtMakerPrice(out', Makers(bids, "BUY", Begin(bids, "BUY")))
       /\ FullMatchExample]_vars

\* a SELL has traded in full at a price above its own limit and the book and
\* the index are empty
C10_Witness ==
  /\ lastOp.op = "limitOrder"
  /\ Len(out) = 1
  /\ out[1].side = "SELL"
  /\ out[1].price > out[1].limit
  /\ out[1].quantity = MaxQty
  /\ DOMAIN bids = {} /\ DOMAIN asks = {}
  /\ DOMAIN order_lookup = {}

\* ---------------------------------------------------------------- C6, C7
\* C6: sequence continuity classification -- a record that does not continue
\* lastSeqId (prevSeqId # lastSeqId, seqId >= prevSeqId) has, once ingested,
\* been reported to the caller as a gap; a contiguous record and a snapshot
\* are applied without a gap report.
C6_GapObservable ==
  feed.pc = "idle" =>
    /\ feed.link = "gap" => gapReported
    /\ feed.link \in {"contiguous", "snapshot"} => ~gapReported

\* C7: lastSeqId tracking -- once setSeqId has run for a record, and after the
\* record is ingested, lastSeqId is that record's seqId, whatever its link to
\* the previous one; a snapshot first resets lastSeqId to -1.
C7_LastSeqIdTracks ==
  /\ (feed.pc \in {"bids", "asks", "idle"} /\ feed.link # "none")
       => lastSeqId = feed.seqId
  /\ (feed.pc = "seq" /\ feed.link = "snapshot") => lastSeqId = NoSeqId

\* a gapped update has been ingested, with levels, onto a lower sequence id
C7_Witness ==
  /\ feed.pc = "idle"
  /\ feed.link = "gap"
  /\ lastOp.op = "feedEnd"
  /\ lastSeqId = feed.seqId
  /\ lastSeqId = MaxSeq
  /\ BothSidesNonEmpty

\* ---------------------------------------------------------------- C11
IsLocal(o) == o.id # 0

\* the local orders of the level at p, in queue order
LocalsAt(m, p) == SelectSeq(QueueAt(m, p), IsLocal)

\* C11: local orders are never displaced by feed updates -- the merge step of
\* updateLevel(side, price, totalQuantity), for any totalQuantity, removes no
\* local order (id # 0) from its level and changes no local order's quantity.
C11_LocalsNeverDisplaced ==
  \A side \in Sides, price \in Prices, totalQuantity \in Qtys :
    LET m == mergeStep(bids, asks, side, price, totalQuantity) IN
    \A p \in Prices :
      /\ LocalsAt(m.bids, p) = LocalsAt(bids, p)
      /\ LocalsAt(m.asks, p) = LocalsAt(asks, p)

\* ---------------------------------------------------------------- C12
NoLocalOrders == \A o \in RestingOrders : o.id = 0

\* the map of the given side in a book
SideMap(bk, side) == IF side = "BUY" THEN bk.bids ELSE bk.asks

OtherSide(side) == IF side = "BUY" THEN "SELL" ELSE "BUY"

\* C12: feed quantity is absolute -- on a book holding no local orders, after
\* updateLevel(side, p, q) the level at p on that side holds exactly one
\* synthetic order of quantity q when q > 0 and does not exist when q is 0,
\* every other level of both sides is unchanged, and applying the same
\* (side, p, q) twice leaves the book that applying it once leaves.
C12_FeedQuantityAbsolute ==
  NoLocalOrders =>
    \A side \in Sides, p \in Prices, q \in Qtys :
      LET bk == [bids |-> bids, asks |-> asks]
          r  == updateLevel(bids, asks, order_lookup, side, p, q)
          r2 == updateLevel(r.bids, r.asks, r.lk, side, p, q)
          m  == SideMap(r, side)
      IN  /\ Live(q) => /\ p \in DOMAIN m
                        /\ Len(m[p]) = 1
                        /\ m[p][1].id = 0
                        /\ m[p][1].quantity = q
          /\ Dust(q) => p \notin DOMAIN m
          /\ MapErase(m, p) = MapErase(SideMap(bk, side), p)
          /\ SideMap(r, OtherSide(side)) = SideMap(bk, OtherSide(side))
          /\ r2.bids = r.bids /\ r2.asks = r.asks


\* ---------------------------------------------------------------- C13
\* the two best levels of a book cross and the heads of both are synthetic
BothSyntheticHeads(bk) ==
  /\ DOMAIN bk.bids # {} /\ DOMAIN bk.asks # {}
  /\ Begin(bk.bids, "BUY") >= Begin(bk.asks, "SELL")
  /\ bk.bids[Begin(bk.bids, "BUY")] # <<>>
  /\ bk.asks[Begin(bk.asks, "SELL")] # <<>>
  /\ bk.bids[Begin(bk.bids, "BUY")][1].id = 0
  /\ bk.asks[Begin(bk.asks, "SELL")][1].id = 0

\* C13: both-synthetic heads are left untouched -- whenever the reconcile step
\* of updateLevel runs on a crossed book whose best bid level and best ask
\* level both have a synthetic head, it makes no fill and changes no order's
\* quantity in those two levels, local orders behind the heads included.
C13_BothSyntheticUntouched ==
  \A side \in Sides, price \in Prices, totalQuantity \in Qtys :
    LET m  == mergeStep(bids, asks, side, price, totalQuantity)
        r  == checkAndMatchLocalOrders(m.bids, m.asks, order_lookup)
        bb == Begin(m.bids, "BUY")
        ba == Begin(m.asks, "SELL")
    IN  BothSyntheticHeads(m) =>
          /\ r.tr = <<>>
          /\ QueueAt(r.bids, bb) = m.bids[bb]
          /\ QueueAt(r.asks, ba) = m.asks[ba]


\* ---------------------------------------------------------------- C14
\* the orders at the head of the best bid level and of the best ask level
\* are both synthetic
HeadsSynthetic == BothSyntheticHeads([bids |-> bids, asks |-> asks])

\* C14: reconcile post-condition -- after updateLevel (merge plus reconcile)
\* returns, either the book is not crossed or the heads of the best bid level
\* and of the best ask level are both synthetic: reconcile does not stop on a
\* crossed pair of best levels with a local head, and it terminates.
C14_ReconcilePostCondition ==
  lastOp.op = "updateLevel" => (~Crossed \/ HeadsSynthetic)

\* reconcile has made a fill and stopped on a crossed pair of synthetic heads
C14_Witness ==
  /\ lastOp.op = "updateLevel"
  /\ out # <<>>
  /\ Crossed
  /\ HeadsSynthetic


\* ---------------------------------------------------------------- C16
\* a local resting order whose price crosses the opposite best price
LocalCrossing ==
  \/ \E o \in OrdersOf(bids) : o.id # 0 /\ DOMAIN asks # {} /\ o.price >= BestAsk
  \/ \E o \in OrdersOf(asks) : o.id # 0 /\ DOMAIN bids # {} /\ o.price <= BestBid

\* C16 as stated: after updateLevel (merge plus reconcile) returns, no local
\* resting bid has a price >= the best ask and no local resting ask has a
\* price <= the best bid, at whatever level of its side the order rests.
C16_NoLocalLeftCrossing ==
  lastOp.op = "updateLevel" => ~LocalCrossing

\* C16 amended: after updateLevel returns, a local order is left crossing
\* only behind a crossed pair of synthetic heads: whenever a local resting bid
\* has a price >= the best ask or a local resting ask a price <= the best bid,
\* the heads of the best bid level and of the best ask level are both
\* synthetic, so no local order at the head of a best level is left crossing.
C16_LocalCrossingOnlyBehindSynthetic ==
  lastOp.op = "updateLevel" => (LocalCrossing => HeadsSynthetic)

\* updateLevel has returned on a book where a local order is left crossing
C16_Witness ==
  /\ lastOp.op = "updateLevel"
  /\ LocalCrossing
  /\ Crossed


\* ---------------------------------------------------------------- C17
\* a book is not crossed: a side is empty or the best bid is below the best ask
Uncrossed(b, a) ==
  \/ DOMAIN b = {}
  \/ DOMAIN a = {}
  \/ Begin(b, "BUY") < Begin(a, "SELL")

\* C17: submit preserves an uncrossed book -- if the book is not crossed when
\* limitOrder is called, it is not crossed when limitOrder returns, for every
\* price, quantity and side of the incoming order, a taker that sweeps several
\* levels and rests its remainder included.
C17_SubmitPreservesUncrossed ==
  [][(lastOp'.op = "limitOrder" /\ Uncrossed(bids, asks))
       => Uncrossed(bids', asks')]_vars

\* a taker has swept two levels of the counter side and rested its remainder
C17_Witness ==
  /\ lastOp.op = "limitOrder"
  /\ Len(out) >= 2
  /\ out[1].price # out[Len(out)].price
  /\ out[1].taker \in DOMAIN order_lookup
  /\ Uncrossed(bids, asks)


\* ---------------------------------------------------------------- C19
\* the synthetic orders of a queue
Synthetics(queue) == {i \in 1..Len(queue) : queue[i].id = 0}

\* at most one synthetic order in the queue, and at its head
SyntheticShape(queue) == Synthetics(queue) \subseteq {1}

FillWithinLimits(t) ==
  IF t.kind = "match"
  THEN /\ IF t.side = "BUY"
          THEN t.price <= t.limit /\ t.price >= t.mprice
          ELSE t.price >= t.limit /\ t.price <= t.mprice
       /\ t.quantity <= t.rem
       /\ t.quantity <= t.mrem
  ELSE /\ t.price <= t.bid
       /\ t.price >= t.ask
       /\ t.quantity <= t.brem
       /\ t.quantity <= t.arem

\* C20: limit price is respected on every fill -- in every trade of submit
\* matching or of reconcile the BUY order (taker or resting, local or
\* synthetic) trades at a price <= its own price and the SELL order at a
\* price >= its own price, the traded quantity exceeds neither party's
\* remaining quantity, and no order's quantity becomes negative.
C20_LimitRespected ==
  /\ \A k \in 1..Len(out) : out[k].kind \in {"match", "reconcile"} =>
       FillWithinLimits(out[k])
  /\ \A o \in RestingOrders : o.quantity >= 0

\* a reconcile fill below the buyer's own price: a local bid above a feed ask
C20_Witness ==
  /\ lastOp.op = "updateLevel"
  /\ out # <<>>
  /\ out[1].price < out[1].bid
  /\ out[1].quantity < out[1].arem


\* ---------------------------------------------------------------- C18
\* C18: sequence id and book are observed consistently -- whenever displayDepth
\* reports lastSeqId = s the book it renders holds every level change of
\* record s: once a depth has been printed with the seqId of the record in
\* hand, the callback applies no further level change of that record.
C18_RecordAtomicForDepth ==
  [][(/\ lastOp.op = "displayDepth"
      /\ out # <<>>
      /\ feed.pc \in {"bids", "asks"}
      /\ out[1].seqId = feed.seqId
      /\ lastOp'.op = "updateLevel")
       => (bids' = bids /\ asks' = asks)]_vars


\* ---------------------------------------------------------------- C15
\* the threads that are inside an operation of the book
Inside == {t \in Threads : thr[t] # Idle}

\* at most one thread is inside an operation, and it is the holder of mtx
MutexHeld ==
  /\ Cardinality(Inside) <= 1
  /\ \A t \in Threads : (t \in Inside) <=> (mtx = t)

\* the depth that displayDepth has just printed is the depth of the book at
\* that moment, asks and bids alike, and no other thread is inside an operation
DepthIsPointInTime ==
  lastOp'.op = "displayDepth" =>
    /\ thr["ws"] = Idle /\ thr["strat"] = Idle
    /\ out' # <<>> =>
         /\ out'[1].asks = Reverse(TopLevels(asks', "SELL", Begin(asks', "SELL"),
                                             DepthLevels))
         /\ out'[1].bids = TopLevels(bids', "BUY", Begin(bids', "BUY"), DepthLevels)

\* C15: mutual exclusion -- limitOrder, updateLevel with its reconcile step,
\* clear and displayDepth each run inside one critical section of mtx: no two
\* of them overlap, and under every interleaving of the threads displayDepth
\* renders a book that is neither between the merge and the reconcile of an
\* updateLevel nor in the middle of a limitOrder.
C15_MutualExclusion == []MutexHeld /\ [][DepthIsPointInTime]_vars

\* the websocket thread stands between merge and reconcile, holding mtx, on a
\* crossed book with a local head, while the main thread waits to display
C15_Witness ==
  /\ thr["ws"].pc = "reconcile"
  /\ mtx = "ws"
  /\ thr["main"] = Idle
  /\ Crossed
  /\ ~HeadsSynthetic


====
